---- MODULE Spec2Model ----
(***************************************************************************)
(* Model of python_cli_app/main.py: the WeChat MP login flow               *)
(* (do_login_flow), the article fetch (fetch_articles_command,             *)
(* _fetch_and_print_articles) and the CLI dispatch (main_cli).             *)
(*                                                                         *)
(* The browser driver (nodriver) is the environment: every call into it    *)
(* either returns one of a small set of values or raises.                  *)
(***************************************************************************)
EXTENDS Bags, FiniteSets, Integers, Sequences, TLC

(***************************************************************************)
(* Bounds of the exploration (not program constants).                      *)
(***************************************************************************)
\* how many iterations of the login wait loop may raise in one run
MaxRaises == 2
\* the user completes the login while fewer than MaxLoginAt attempts have
\* been counted, or not at all
MaxLoginAt == 2
\* longest publish_list the server sends
MaxItems == 2

(***************************************************************************)
(* Python values.  Every value carries its type, so that truthiness,       *)
(* str(), dict.get and json.loads behave per type as in Python.            *)
(***************************************************************************)
PyNone == [t |-> "none"]
PyStr(s) == [t |-> "str", s |-> s]
PyInt(n) == [t |-> "int", n |-> n]
PyBool(b) == [t |-> "bool", b |-> b]
PyDict(d) == [t |-> "dict", d |-> d]
PyList(l) == [t |-> "list", l |-> l]
\* the empty dict {}
EmptyDict == PyDict(<<>>)
\* placeholder of a local variable that has not been assigned yet
Unset == [t |-> "unset"]

\* bool(v): Python truth value testing
Truthy(v) ==
  CASE v.t = "none" -> FALSE
    [] v.t = "str" -> v.s # ""
    [] v.t = "int" -> v.n # 0
    [] v.t = "bool" -> v.b
    [] v.t = "dict" -> DOMAIN v.d # {}
    [] v.t = "list" -> Len(v.l) > 0

\* str(v) for the scalar values a script evaluation can return
py_str(v) ==
  CASE v.t = "str" -> v.s
    [] v.t = "int" -> ToString(v.n)
    [] v.t = "bool" -> IF v.b THEN "True" ELSE "False"
    [] v.t = "none" -> "None"

(***************************************************************************)
(* Strings: substring test and the token regular expression.               *)
(***************************************************************************)
\* Python `sub in s`
Contains(s, sub) ==
  \E k \in 1..(Len(s) - Len(sub) + 1) : SubSeq(s, k, k + Len(sub) - 1) = sub

\* the characters matched by \w (ASCII letters, digits, underscore)
WordChars ==
  {"a","b","c","d","e","f","g","h","i","j","k","l","m",
   "n","o","p","q","r","s","t","u","v","w","x","y","z",
   "A","B","C","D","E","F","G","H","I","J","K","L","M",
   "N","O","P","Q","R","S","T","U","V","W","X","Y","Z",
   "0","1","2","3","4","5","6","7","8","9","_"}

IsWordChar(s, k) == k <= Len(s) /\ SubSeq(s, k, k) \in WordChars

\* last position of the maximal run of \w characters that starts at k
RECURSIVE WordRunEnd(_, _)
WordRunEnd(s, k) == IF IsWordChar(s, k + 1) THEN WordRunEnd(s, k + 1) ELSE k

\* re.search(r"token=(\w+)", s): group(1) of the leftmost match, or None
re_search_token(s) ==
  LET starts == {k \in 1..Len(s) :
                   /\ k + 5 <= Len(s)
                   /\ SubSeq(s, k, k + 5) = "token="
                   /\ IsWordChar(s, k + 6)}
  IN IF starts = {} THEN PyNone
     ELSE LET k == CHOOSE m \in starts : \A n \in starts : m <= n
          IN PyStr(SubSeq(s, k + 6, WordRunEnd(s, k + 6)))

(***************************************************************************)
(* json.loads on a str: a recursive-descent decoder of JSON text           *)
(* (objects, arrays, strings with the escapes \" \\ \/, non-negative       *)
(* integers, true, false, null; blanks between tokens).                    *)
(***************************************************************************)
\* the character of s at position p ("" outside s)
CharAt(s, p) == IF p >= 1 /\ p <= Len(s) THEN SubSeq(s, p, p) ELSE ""

Digits == {"0","1","2","3","4","5","6","7","8","9"}

DigitVal(c) ==
  CASE c = "0" -> 0 [] c = "1" -> 1 [] c = "2" -> 2 [] c = "3" -> 3
    [] c = "4" -> 4 [] c = "5" -> 5 [] c = "6" -> 6 [] c = "7" -> 7
    [] c = "8" -> 8 [] c = "9" -> 9

\* result of a decoding step: failure, or the value and the next position
JsonFail == [ok |-> FALSE]
JsonOk(v, p) == [ok |-> TRUE, v |-> v, p |-> p]

\* the first position from p on that holds no blank
skip_ws(s, p) ==
  IF \A q \in p..Len(s) : SubSeq(s, q, q) = " " THEN Len(s) + 1
  ELSE CHOOSE q \in p..Len(s) :
         /\ SubSeq(s, q, q) # " "
         /\ \A r \in p..(q - 1) : SubSeq(s, r, r) = " "

\* the first position from p on that holds a quote or a backslash
\* (Len(s) + 1 when there is none)
next_special(s, p) ==
  IF \A q \in p..Len(s) : SubSeq(s, q, q) \notin {"\"", "\\"} THEN Len(s) + 1
  ELSE CHOOSE q \in p..Len(s) :
         /\ SubSeq(s, q, q) \in {"\"", "\\"}
         /\ \A r \in p..(q - 1) : SubSeq(s, r, r) \notin {"\"", "\\"}

\* the text of a JSON string from position p (past its opening quote), acc
\* being the text decoded so far and q the next quote or backslash
RECURSIVE string_to(_, _, _, _)
string_to(s, p, q, acc) ==
  IF q > Len(s) THEN JsonFail
  ELSE IF SubSeq(s, q, q) = "\"" THEN JsonOk(acc \o SubSeq(s, p, q - 1), q + 1)
  ELSE IF CharAt(s, q + 1) \in {"\"", "\\", "/"}
  THEN string_to(s, q + 2, next_special(s, q + 2),
                 acc \o SubSeq(s, p, q - 1) \o CharAt(s, q + 1))
  ELSE JsonFail

parse_string(s, p) == string_to(s, p, next_special(s, p), "")

\* the first position from p on that holds no digit
digits_end(s, p) ==
  IF \A q \in p..Len(s) : SubSeq(s, q, q) \in Digits THEN Len(s) + 1
  ELSE CHOOSE q \in p..Len(s) :
         /\ SubSeq(s, q, q) \notin Digits
         /\ \A r \in p..(q - 1) : SubSeq(s, r, r) \in Digits

\* the number written by the digits of s at positions p..q
RECURSIVE digits_value(_, _, _)
digits_value(s, p, q) ==
  IF q < p THEN 0
  ELSE 10 * digits_value(s, p, q - 1) + DigitVal(SubSeq(s, q, q))

\* a literal word (null, true, false) at position p
parse_word(s, p, word, v) ==
  IF SubSeq(s, p, p + Len(word) - 1) = word THEN JsonOk(v, p + Len(word))
  ELSE JsonFail

\* a str value from the decoded text of a JSON string
as_str(r) == IF r.ok THEN JsonOk(PyStr(r.v), r.p) ELSE JsonFail

RECURSIVE value_at(_, _), elements_from(_, _, _), element_then(_, _, _),
          members_from(_, _, _), member_key(_, _, _), member_value(_, _, _, _),
          member_then(_, _, _, _)

\* the JSON value that starts at position p (no blank at p)
value_at(s, p) ==
  CASE CharAt(s, p) = "{" ->
         IF CharAt(s, skip_ws(s, p + 1)) = "}"
         THEN JsonOk(EmptyDict, skip_ws(s, p + 1) + 1)
         ELSE members_from(s, skip_ws(s, p + 1), <<>>)
    [] CharAt(s, p) = "[" ->
         IF CharAt(s, skip_ws(s, p + 1)) = "]"
         THEN JsonOk(PyList(<<>>), skip_ws(s, p + 1) + 1)
         ELSE elements_from(s, skip_ws(s, p + 1), <<>>)
    [] CharAt(s, p) = "\"" -> as_str(parse_string(s, p + 1))
    [] CharAt(s, p) \in Digits ->
         JsonOk(PyInt(digits_value(s, p, digits_end(s, p) - 1)), digits_end(s, p))
    [] CharAt(s, p) = "n" -> parse_word(s, p, "null", PyNone)
    [] CharAt(s, p) = "t" -> parse_word(s, p, "true", PyBool(TRUE))
    [] CharAt(s, p) = "f" -> parse_word(s, p, "false", PyBool(FALSE))
    [] OTHER -> JsonFail

\* the elements of an array from position p on, up to its "]"
elements_from(s, p, acc) == element_then(s, value_at(s, p), acc)

\* r is the element decoded last: a "," or the "]" must follow it
element_then(s, r, acc) ==
  IF ~r.ok THEN JsonFail
  ELSE IF CharAt(s, skip_ws(s, r.p)) = ","
  THEN elements_from(s, skip_ws(s, skip_ws(s, r.p) + 1), Append(acc, r.v))
  ELSE IF CharAt(s, skip_ws(s, r.p)) = "]"
  THEN JsonOk(PyList(Append(acc, r.v)), skip_ws(s, r.p) + 1)
  ELSE JsonFail

\* the members of an object from position p on, up to its "}"
members_from(s, p, acc) ==
  IF CharAt(s, p) # "\"" THEN JsonFail
  ELSE member_key(s, parse_string(s, p + 1), acc)

\* k is the key decoded last: a ":" and the value must follow it
member_key(s, k, acc) ==
  IF ~k.ok THEN JsonFail
  ELSE IF CharAt(s, skip_ws(s, k.p)) # ":" THEN JsonFail
  ELSE member_value(s, k.v, skip_ws(s, skip_ws(s, k.p) + 1), acc)

member_value(s, key, p, acc) == member_then(s, key, value_at(s, p), acc)

\* r is the value of `key`: a "," or the "}" must follow it; a repeated
\* key keeps its last value
member_then(s, key, r, acc) ==
  IF ~r.ok THEN JsonFail
  ELSE IF CharAt(s, skip_ws(s, r.p)) = ","
  THEN members_from(s, skip_ws(s, skip_ws(s, r.p) + 1),
                    [x \in (DOMAIN acc) \cup {key} |->
                       IF x = key THEN r.v ELSE acc[x]])
  ELSE IF CharAt(s, skip_ws(s, r.p)) = "}"
  THEN JsonOk(PyDict([x \in (DOMAIN acc) \cup {key} |->
                        IF x = key THEN r.v ELSE acc[x]]),
              skip_ws(s, r.p) + 1)
  ELSE JsonFail

\* the whole text must be one value
loads_result(s, r) ==
  IF r.ok /\ skip_ws(s, r.p) = Len(s) + 1 THEN [ok |-> TRUE, v |-> r.v]
  ELSE [ok |-> FALSE]

\* json.loads(s) for a str s: [ok |-> TRUE, v |-> value], or
\* [ok |-> FALSE] where Python raises json.JSONDecodeError
json_loads(s) == loads_result(s, value_at(s, skip_ws(s, 1)))

(***************************************************************************)
(* Python operations used by _fetch_and_print_articles.                    *)
(***************************************************************************)
\* v.get(k, default) on a dict v
dict_get(v, k, default) == IF k \in DOMAIN v.d THEN v.d[k] ELSE default

\* some enumeration of a finite set as a sequence
RECURSIVE SetToSeq(_)
SetToSeq(S) ==
  IF S = {} THEN <<>>
  ELSE LET x == CHOOSE y \in S : TRUE IN <<x>> \o SetToSeq(S \ {x})

\* whether `for x in v` / enumerate(v) can iterate v
Iterable(v) == v.t \in {"list", "dict", "str"}

\* what the iteration yields: the elements of a list, the keys of a dict
\* (all of them str, in an order nothing below depends on), the characters
\* of a str
py_iter(v) ==
  CASE v.t = "list" -> v.l
    [] v.t = "dict" -> LET ks == SetToSeq(DOMAIN v.d)
                       IN [k \in 1..Len(ks) |-> PyStr(ks[k])]
    [] v.t = "str" -> [k \in 1..Len(v.s) |-> PyStr(SubSeq(v.s, k, k))]

(***************************************************************************)
(* _fetch_and_print_articles, lines 170-214: everything between the        *)
(* evaluation of the page text and the return or the except clause.  No    *)
(* await occurs in these lines, so they are one step of the program and    *)
(* a function of the page text.                                            *)
(***************************************************************************)
\* what processing one item or sub-list ended in: an exception that
\* escapes (exc # "none"), or a title (None when none was found) and the
\* log record written for the item
Escapes(exc, line) ==
  [exc |-> exc, title |-> PyNone, level |-> "none", line |-> line]
Titled(title, level, line) ==
  [exc |-> "none", title |-> title, level |-> level, line |-> line]

\* lines 202-205 for a sub-item without a direct title: `inner` is
\* article_detail.get("appmsg_info", {})
RECURSIVE scan_article_details(_, _), scan_inner(_, _, _)
scan_inner(details, k, inner) ==
  IF inner.t # "dict" THEN Escapes("AttributeError", 202)
  ELSE IF Truthy(dict_get(inner, "title", PyNone))
  THEN Titled(inner.d["title"], "INFO", 204)
  ELSE scan_article_details(details, k + 1)

\* lines 196-207: the scan of the decoded publish_info from position k
scan_article_details(details, k) ==
  IF k > Len(details) THEN Titled(PyNone, "WARNING", 207)
  ELSE IF details[k].t # "dict" THEN scan_article_details(details, k + 1)
  ELSE IF Truthy(dict_get(details[k], "title", PyNone))
  THEN Titled(details[k].d["title"], "INFO", 200)
  ELSE scan_inner(details, k, dict_get(details[k], "appmsg_info", EmptyDict))

\* lines 195-209, `decoded` being the outcome of json.loads(publish_info)
scan_decoded(decoded) ==
  IF ~decoded.ok THEN Titled(PyNone, "ERROR", 209)
  ELSE IF ~Iterable(decoded.v) THEN Escapes("TypeError", 196)
  ELSE scan_article_details(py_iter(decoded.v), 1)

\* lines 194-209: the publish_info branch
resolve_publish_info(publish_info) ==
  IF publish_info.t # "str" THEN Escapes("TypeError", 195)
  ELSE scan_decoded(json_loads(publish_info.s))

\* variant of resolve_rules: the top-level title is tried first
resolve_rules_title_first(item_wrapper, publish_info, appmsg_info) ==
  IF Truthy(dict_get(item_wrapper, "title", PyNone))
  THEN Titled(item_wrapper.d["title"], "INFO", 212)
  ELSE IF Truthy(appmsg_info) /\ appmsg_info.t # "dict"
  THEN Escapes("AttributeError", 190)
  ELSE IF Truthy(appmsg_info) /\ Truthy(dict_get(appmsg_info, "title", PyNone))
  THEN Titled(appmsg_info.d["title"], "INFO", 192)
  ELSE IF Truthy(publish_info) THEN resolve_publish_info(publish_info)
  ELSE Titled(PyNone, "WARNING", 214)

\* lines 190-214: the chain of rules for one item_wrapper
resolve_rules(item_wrapper, publish_info, appmsg_info) ==
  IF Truthy(appmsg_info) /\ appmsg_info.t # "dict"
  THEN Escapes("AttributeError", 190)
  ELSE IF Truthy(appmsg_info) /\ Truthy(dict_get(appmsg_info, "title", PyNone))
  THEN Titled(appmsg_info.d["title"], "INFO", 192)
  ELSE IF Truthy(publish_info) THEN resolve_publish_info(publish_info)
  ELSE IF Truthy(dict_get(item_wrapper, "title", PyNone))
  THEN Titled(item_wrapper.d["title"], "INFO", 212)
  ELSE Titled(PyNone, "WARNING", 214)

\* lines 186-214: the body of the loop for one item_wrapper
resolve_title(item_wrapper) ==
  IF item_wrapper.t # "dict" THEN Escapes("AttributeError", 187)
  ELSE resolve_rules(item_wrapper,
                     dict_get(item_wrapper, "publish_info", PyNone),
                     dict_get(item_wrapper, "appmsg_info", PyNone))

\* what the loop records for item i
Examined(i, r) ==
  [index |-> i, exc |-> r.exc, title |-> r.title, level |-> r.level,
   line |-> r.line]

\* lines 185-214: the loop over publish_list from item i on; `done` holds
\* what the items before i ended in, r what item i ends in
RECURSIVE print_articles(_, _, _), print_next(_, _, _, _)
print_next(items, i, done, r) ==
  IF r.exc # "none" THEN Append(done, Examined(i, r))
  ELSE print_articles(items, i + 1, Append(done, Examined(i, r)))

print_articles(items, i, done) ==
  IF i > Len(items) THEN done
  ELSE print_next(items, i, done, resolve_title(items[i]))

\* the outcome of lines 170-217 for a page text: how they ended, the
\* exception caught at line 216 if any, the number of entries of
\* publish_list, what the loop recorded, the log records written
Parsed(status, exc, entries, examined, logs) ==
  [status |-> status, exc |-> exc, entries |-> entries, examined |-> examined,
   logs |-> logs]

\* the log records of the items examined
item_logs(examined) ==
  [k \in 1..Len(examined) |->
     IF examined[k].exc # "none" THEN [level |-> "ERROR", line |-> 217]
     ELSE [level |-> examined[k].level, line |-> examined[k].line]]

\* the exception the loop ended with
loop_exc(examined) ==
  IF examined # <<>> /\ examined[Len(examined)].exc # "none"
  THEN examined[Len(examined)].exc ELSE "none"

\* lines 184-217, `examined` being what the loop over n entries recorded
listed(n, examined) ==
  Parsed(IF loop_exc(examined) = "none" THEN "listed" ELSE "exception",
         loop_exc(examined), n, examined,
         <<[level |-> "INFO", line |-> 172], [level |-> "INFO", line |-> 184]>>
           \o item_logs(examined))

\* lines 180-217
print_publish_list(publish_list) ==
  IF ~Truthy(publish_list)
  THEN Parsed("empty", "none", 0, <<>>,
              <<[level |-> "INFO", line |-> 172],
                [level |-> "WARNING", line |-> 181]>>)
  ELSE IF ~Iterable(publish_list)
  THEN Parsed("exception", "TypeError", 0, <<>>,
              <<[level |-> "INFO", line |-> 172], [level |-> "INFO", line |-> 184],
                [level |-> "ERROR", line |-> 217]>>)
  ELSE listed(Len(py_iter(publish_list)),
              print_articles(py_iter(publish_list), 1, <<>>))

\* what lines 170-217 end in when .get is called on a value that is no dict
get_fails ==
  Parsed("exception", "AttributeError", 0, <<>>,
         <<[level |-> "INFO", line |-> 172], [level |-> "ERROR", line |-> 217]>>)

\* line 178, second .get
print_publish_page(publish_page) ==
  IF publish_page.t # "dict" THEN get_fails
  ELSE print_publish_list(dict_get(publish_page, "publish_list", PyList(<<>>)))

\* line 178, first .get
print_response(json_response) ==
  IF json_response.t # "dict" THEN get_fails
  ELSE print_publish_page(dict_get(json_response, "publish_page", EmptyDict))

\* lines 170-176, `decoded` being the outcome of json.loads
print_decoded(decoded) ==
  IF ~decoded.ok
  THEN Parsed("decode_error", "none", 0, <<>>,
              <<[level |-> "ERROR", line |-> 174]>>)
  ELSE print_response(decoded.v)

\* lines 170-217
parse_and_print(json_text_content) ==
  IF json_text_content.t # "str"
  THEN Parsed("exception", "TypeError", 0, <<>>,
              <<[level |-> "ERROR", line |-> 217]>>)
  ELSE print_decoded(json_loads(json_text_content.s))

(***************************************************************************)
(* Program constants.                                                      *)
(***************************************************************************)
max_login_check_attempts == 120
\* the substring whose presence in tab.url means "logged in"
HomePath == "mp.weixin.qq.com/cgi-bin/home"
\* len(js_scripts_for_fakeid)
NumFakeidScripts == 3
\* the progress message is logged when the attempts reach a multiple of it
ProgressEvery == 20
\* the address do_login_flow opens
LoginPageUrl == "https://mp.weixin.qq.com/"
\* the address fetch_articles_command opens to obtain a tab
BlankUrl == "about:blank"
articles_url == "https://mp.weixin.qq.com/cgi-bin/appmsgpublish"

(***************************************************************************)
(* Environment: what the browser, the server and the user can answer.      *)
(***************************************************************************)
\* addresses tab.url can show
HomeUrlWithToken == "https://mp.weixin.qq.com/cgi-bin/home?t=home/index&lang=zh_CN&token=1234567"
HomeUrlNoToken == "https://mp.weixin.qq.com/cgi-bin/home?t=home/index"
ExpiredUrl == "https://mp.weixin.qq.com/cgi-bin/loginpage?token=99&url=/"
Urls == {LoginPageUrl, HomeUrlWithToken, HomeUrlNoToken, ExpiredUrl}

\* results of the in-page scripts (the fake_id and nick_name probes)
ScriptResults == {PyNone, PyStr(""), PyStr("MzA5"), PyInt(3094)}
\* marks a script evaluation that raised
Raised == [t |-> "raised"]

\* entries of publish_list, as JSON text
ItemAppmsg == "{\"appmsg_info\":{\"title\":\"Hello\"}}"
ItemPublishInfo == "{\"publish_info\":\"[{\\\"title\\\":\\\"World\\\"}]\"}"
ItemDirect == "{\"title\":\"Direct\"}"
ItemNoTitle == "{\"foo\":\"bar\"}"
ItemBoth == "{\"title\":\"Top\",\"appmsg_info\":{\"title\":\"Nested\"}}"
ItemBadJson == "{\"publish_info\":\"not json\",\"title\":\"T6\"}"
ItemInfoNumber == "{\"publish_info\":5}"
ItemSubNull == "{\"publish_info\":\"[{\\\"appmsg_info\\\":null}]\"}"
ItemInfoScalar == "{\"publish_info\":\"7\"}"
ItemEmptyAppmsgTitle == "{\"appmsg_info\":{\"title\":\"\"},\"publish_info\":\"[{\\\"appmsg_info\\\":{\\\"title\\\":\\\"Sub\\\"}}]\",\"title\":\"T10\"}"
ItemSecondSub == "{\"publish_info\":\"[{\\\"x\\\":1},{\\\"title\\\":\\\"Second\\\"},{\\\"title\\\":\\\"Third\\\"}]\"}"
ItemSubBoth == "{\"publish_info\":\"[{\\\"title\\\":\\\"D\\\",\\\"appmsg_info\\\":{\\\"title\\\":\\\"N\\\"}}]\"}"
ItemInfoNoTitle == "{\"publish_info\":\"[{\\\"x\\\":1}]\",\"title\":\"T13\"}"
ItemString == "\"text\""
ItemAppmsgString == "{\"appmsg_info\":\"oops\"}"
ItemEmptyInfo == "{\"publish_info\":\"\",\"title\":\"T16\"}"
ItemTexts ==
  {ItemAppmsg, ItemPublishInfo, ItemDirect, ItemNoTitle, ItemBoth, ItemBadJson,
   ItemInfoNumber, ItemSubNull, ItemInfoScalar, ItemEmptyAppmsgTitle,
   ItemSecondSub, ItemSubBoth, ItemInfoNoTitle, ItemString, ItemAppmsgString,
   ItemEmptyInfo}

RECURSIVE JoinItems(_)
JoinItems(items) ==
  IF items = <<>> THEN ""
  ELSE IF Len(items) = 1 THEN items[1]
  ELSE items[1] \o "," \o JoinItems(Tail(items))

\* the response that lists the given entries
ListBody(items) ==
  "{\"base_resp\":{\"ret\":0},\"publish_page\":{\"total_count\":"
    \o ToString(Len(items)) \o ",\"publish_list\":[" \o JoinItems(items) \o "]}}"

\* the four entries of the example: nested title, publish_info, direct
\* title, no title
ExampleBody == ListBody(<<ItemAppmsg, ItemPublishInfo, ItemDirect, ItemNoTitle>>)

\* responses that are JSON without a list of entries, and responses that
\* are not JSON
BodyNoPage == "{\"base_resp\":{\"ret\":200003,\"err_msg\":\"invalid session\"}}"
BodyEmptyPage == "{\"publish_page\":{}}"
BodyNullPage == "{\"publish_page\":null}"
BodyScalarList == "{\"publish_page\":{\"publish_list\":5}}"
BodyZeroList == "{\"publish_page\":{\"publish_list\":0}}"
BodyStringList == "{\"publish_page\":{\"publish_list\":\"ab\"}}"
BodyTopList == "[]"
BodyTopNull == "null"
BodyHtml == "<html>Login required</html>"
BodyBlank == ""
OtherBodies ==
  {BodyNoPage, BodyEmptyPage, BodyNullPage, BodyScalarList, BodyZeroList,
   BodyStringList, BodyTopList, BodyTopNull, BodyHtml, BodyBlank}

\* what tab.evaluate("document.body.textContent") can return
PageTexts ==
  {PyStr(ListBody(items)) :
     items \in UNION {[1..n -> ItemTexts] : n \in 0..MaxItems}}
  \cup {PyStr(ExampleBody)}
  \cup {PyStr(b) : b \in OtherBodies}
  \cup {PyNone}

\* the fewer page texts explored when the fetch runs under main_cli
CliPageTexts ==
  {PyStr(ExampleBody), PyStr(ListBody(<<ItemInfoNumber, ItemDirect>>)),
   PyStr(BodyNoPage), PyStr(BodyHtml)}

\* arguments fetch_articles_command is called with
CredArgs == {PyNone, PyStr(""), PyStr("1234567"), PyStr("MzA5")}

\* command lines (sys.argv) main_cli is run with
CommandLines ==
  {<<"main.py">>,
   <<"main.py", "--login">>,
   <<"main.py", "--debug", "--login">>,
   <<"main.py", "--login", "--get-articles", "--token", "T1", "--fakeid", "F1">>,
   <<"main.py", "--get-articles">>,
   <<"main.py", "--get-articles", "--token", "T1">>,
   <<"main.py", "--get-articles", "--fakeid", "F1">>,
   <<"main.py", "--get-articles", "--token", "", "--fakeid", "F1">>,
   <<"main.py", "--get-articles", "--token", "T1", "--fakeid", "F1">>,
   <<"main.py", "--debug">>,
   <<"main.py", "--token", "T1", "--fakeid", "F1">>}

(***************************************************************************)
(* State.                                                                  *)
(***************************************************************************)
VARIABLES
  pc,          \* position of the flow of control
  via,         \* caller of the running operation: "direct" or the main_cli branch
  sessions,    \* every browser session opened so far: [owner, open]
  navigations, \* every driver.get / tab.get so far: [session, url]
  evaluations, \* every tab.evaluate so far: [session, script]
  log,         \* bag of the log records emitted: [level, line]
  \* main_cli
  argv, args, token_to_use, fakeid_to_use, login_details, help_printed,
  \* do_login_flow
  logged_in, login_check_attempts, current_url, token, fakeid, nickname,
  login_info,
  probe,       \* number of the next fakeid script (i + 1)
  iterations,  \* history: iterations of the wait loop so far
  raises,      \* history: iterations of the wait loop that raised
  probes,      \* history: the result of each fakeid script evaluated
  login_calls, \* history: calls of do_login_flow
  login_ret,   \* what do_login_flow returned (Unset while it has not)
  login_raised,\* whether do_login_flow left by an exception
  \* fetch_articles_command and _fetch_and_print_articles
  fetch_token, fetch_fakeid, json_text_content,
  parsed,      \* outcome of lines 170-217 (Unset before)
  fetch_calls, \* history: the arguments of each call of fetch_articles_command
  fetch_ret    \* what fetch_articles_command returned (Unset while it has not)

cli_vars == <<argv, args, token_to_use, fakeid_to_use, login_details,
              help_printed>>
login_vars == <<logged_in, login_check_attempts, current_url, token, fakeid,
                nickname, login_info, probe, iterations, raises, probes>>
login_io == <<login_calls, login_ret, login_raised>>
fetch_vars == <<fetch_token, fetch_fakeid, json_text_content, parsed>>
fetch_io == <<fetch_calls, fetch_ret>>
env_vars == <<sessions, navigations, evaluations>>
vars == <<pc, via, sessions, navigations, evaluations, log, argv, args,
          token_to_use, fakeid_to_use, login_details, help_printed, logged_in,
          login_check_attempts, current_url, token, fakeid, nickname,
          login_info, probe, iterations, raises, probes, login_calls,
          login_ret, login_raised, fetch_token, fetch_fakeid,
          json_text_content, parsed, fetch_calls, fetch_ret>>

(***************************************************************************)
(* Logging and sessions.                                                   *)
(***************************************************************************)
\* the record of a logger call at a line of main.py
Rec(level, line) == [level |-> level, line |-> line]
\* the log after the given records were written
Logged(l, recs) == l (+) SetToBag(recs)
RECURSIVE LoggedAll(_, _)
LoggedAll(l, recs) ==
  IF recs = <<>> THEN l
  ELSE LoggedAll(l (+) SetToBag({Head(recs)}), Tail(recs))

\* uc.start(...) returned and `async with` entered the browser
open_session(ss, owner) == Append(ss, [owner |-> owner, open |-> TRUE])
\* variant of aexit: the session is left as it is
aexit_session_left_open(ss) == ss
\* `async with` is left (normally, by return or by an exception): __aexit__
aexit(ss) == [ss EXCEPT ![Len(ss)].open = FALSE]
\* variant of cur: the operation drives the first session there is
first_session ==
  IF sessions = <<>> THEN Len(sessions)
  ELSE CHOOSE i \in DOMAIN sessions : \A j \in DOMAIN sessions : i <= j
\* the session the running operation drives
cur == Len(sessions)

\* do_login_flow returns v to its caller
login_return(v) ==
  /\ login_ret' = v
  /\ pc' = IF via = "direct" THEN "done" ELSE "cli_login_returned"

\* fetch_articles_command returns (None) to its caller
fetch_return ==
  /\ fetch_ret' = PyNone
  /\ pc' = IF via = "direct" THEN "done" ELSE "cli_fetch_returned"

(***************************************************************************)
(* do_login_flow (main.py 14-121).  The actions that ask the browser for   *)
(* an address or a script result take the set of possible answers.         *)
(***************************************************************************)
\* what no step of do_login_flow changes
login_frame == <<via, cli_vars, fetch_vars, fetch_io, login_calls, login_raised>>

\* line 24: uc.start(...) and entering `async with`
do_login_flow_start ==
  /\ pc = "login_start"
  /\ \E ok \in BOOLEAN :
       IF ok
       THEN /\ sessions' = open_session(sessions, "login")
            /\ log' = Logged(log, {Rec("INFO", 23)})
            /\ pc' = "login_get"
            /\ UNCHANGED login_ret
       ELSE \* uc.start raised: caught at line 119, no session exists
            /\ log' = Logged(log, {Rec("INFO", 23), Rec("CRITICAL", 120)})
            /\ login_return(PyNone)
            /\ UNCHANGED sessions
  /\ UNCHANGED <<navigations, evaluations, login_vars, login_frame>>

\* lines 29-38: driver.get of the login page
do_login_flow_get ==
  /\ pc = "login_get"
  /\ navigations' = Append(navigations, [session |-> cur, url |-> LoginPageUrl])
  /\ \E ok \in BOOLEAN :
       IF ok
       THEN /\ log' = Logged(log, {Rec("INFO", 31)})
            /\ logged_in' = FALSE
            /\ login_check_attempts' = 0
            /\ pc' = "login_wait"
            /\ UNCHANGED <<sessions, login_ret>>
       ELSE \* lines 32-34: return None from inside the `async with`
            /\ log' = Logged(log, {Rec("ERROR", 33)})
            /\ sessions' = aexit(sessions)
            /\ login_return(PyNone)
            /\ UNCHANGED <<logged_in, login_check_attempts>>
  /\ UNCHANGED <<evaluations, current_url, token, fakeid, nickname, login_info,
                 probe, iterations, raises, probes, login_frame>>

\* variant of wait_loop_continues: the loop runs while the counter is at
\* most the maximum
wait_loop_continues_inclusive ==
  ~logged_in /\ login_check_attempts <= max_login_check_attempts

\* line 40: the condition of the wait loop
wait_loop_continues ==
  ~logged_in /\ login_check_attempts < max_login_check_attempts

\* variant of is_home: any page of the platform counts as logged in
is_home_any_page(url) == Contains(url, "mp.weixin.qq.com")

\* line 44: the address shows that the user has logged in
is_home(url) == Contains(url, HomePath)

\* lines 40-50: one iteration whose sleep and address read succeed
do_login_flow_wait_read(addresses) ==
  /\ pc = "login_wait"
  /\ wait_loop_continues
  /\ \E u \in addresses :
       /\ is_home(u) => login_check_attempts < MaxLoginAt
       /\ current_url' = PyStr(u)
       /\ IF is_home(u)
          THEN /\ logged_in' = TRUE
               /\ log' = Logged(log, {Rec("INFO", 46)})
               /\ UNCHANGED login_check_attempts
          ELSE /\ login_check_attempts' = login_check_attempts + 1
               /\ log' = IF login_check_attempts' % ProgressEvery = 0
                         THEN Logged(log, {Rec("INFO", 50)})
                         ELSE log
               /\ UNCHANGED logged_in
  /\ iterations' = iterations + 1
  /\ UNCHANGED <<pc, env_vars, token, fakeid, nickname, login_info, probe,
                 raises, probes, login_ret, login_frame>>

\* variant of do_login_flow_wait_raise: the exception leaves the loop and is
\* caught at line 119
do_login_flow_wait_raise_aborts ==
  /\ pc = "login_wait"
  /\ wait_loop_continues
  /\ raises < MaxRaises
  /\ log' = Logged(log, {Rec("CRITICAL", 120)})
  /\ iterations' = iterations + 1
  /\ raises' = raises + 1
  /\ sessions' = aexit(sessions)
  /\ login_return(PyNone)
  /\ UNCHANGED <<navigations, evaluations, logged_in, login_check_attempts,
                 current_url, token, fakeid, nickname, login_info, probe,
                 probes, login_frame>>

\* lines 40-43, 51-54: one iteration whose tab.sleep(1) or tab.url raises
do_login_flow_wait_raise ==
  /\ pc = "login_wait"
  /\ wait_loop_continues
  /\ raises < MaxRaises
  /\ log' = Logged(log, {Rec("WARNING", 52)})
  /\ iterations' = iterations + 1
  /\ raises' = raises + 1
  /\ UNCHANGED <<pc, env_vars, logged_in, login_check_attempts, current_url,
                 token, fakeid, nickname, login_info, probe, probes, login_ret,
                 login_frame>>

\* another party closes the browser while do_login_flow waits in the loop
close_out_of_band ==
  /\ pc = "login_wait"
  /\ wait_loop_continues
  /\ sessions[cur].open
  /\ sessions' = [sessions EXCEPT ![cur].open = FALSE]
  /\ UNCHANGED <<pc, navigations, evaluations, log, login_vars, login_ret,
                 login_frame>>

\* lines 40-43, 51-53 once the browser is closed: tab.sleep(1) raises and
\* the warning is logged.  The histories and the log stop counting at
\* MaxRaises; the loop does not stop.
do_login_flow_wait_closed ==
  /\ pc = "login_wait"
  /\ wait_loop_continues
  /\ ~sessions[cur].open
  /\ IF raises < MaxRaises
     THEN /\ log' = Logged(log, {Rec("WARNING", 52)})
          /\ iterations' = iterations + 1
          /\ raises' = raises + 1
     ELSE UNCHANGED <<log, iterations, raises>>
  /\ pc' = "login_backoff"
  /\ UNCHANGED <<env_vars, logged_in, login_check_attempts, current_url,
                 token, fakeid, nickname, login_info, probe, probes, login_ret,
                 login_frame>>

\* line 54: asyncio.sleep(1) of the except clause returns, and the
\* condition of line 40 is tested again
do_login_flow_backoff ==
  /\ pc = "login_backoff"
  /\ pc' = "login_wait"
  /\ UNCHANGED <<env_vars, log, login_vars, login_ret, login_frame>>

\* lines 56-60: after the wait loop
do_login_flow_after_wait ==
  /\ pc = "login_wait"
  /\ ~wait_loop_continues
  /\ IF ~logged_in
     THEN /\ log' = Logged(log, {Rec("WARNING", 57)})
          /\ sessions' = aexit(sessions)
          /\ login_return(PyNone)
     ELSE /\ log' = Logged(log, {Rec("INFO", 60)})
          /\ pc' = "login_token"
          /\ UNCHANGED <<sessions, login_ret>>
  /\ UNCHANGED <<navigations, evaluations, login_vars, login_frame>>

\* variant of do_login_flow_token: the token is taken only from an address
\* that still shows the home page
do_login_flow_token_checked(addresses) ==
  /\ pc = "login_token"
  /\ \/ \E u \in addresses :
          /\ current_url' = PyStr(u)
          /\ token' = IF is_home(u) THEN re_search_token(u) ELSE PyNone
          /\ log' = Logged(log, {IF token' # PyNone THEN Rec("INFO", 68)
                                                     ELSE Rec("WARNING", 70)})
          /\ fakeid' = PyNone
          /\ probe' = 1
          /\ pc' = "login_fakeid"
          /\ UNCHANGED <<sessions, login_ret>>
     \/ /\ log' = Logged(log, {Rec("CRITICAL", 120)})
        /\ sessions' = aexit(sessions)
        /\ login_return(PyNone)
        /\ UNCHANGED <<current_url, token, fakeid, probe>>
  /\ UNCHANGED <<navigations, evaluations, logged_in, login_check_attempts,
                 nickname, login_info, iterations, raises, probes, login_frame>>

\* lines 61-79: read the address again and extract the token
do_login_flow_token(addresses) ==
  /\ pc = "login_token"
  /\ \/ \E u \in addresses :
          /\ current_url' = PyStr(u)
          /\ token' = re_search_token(u)
          /\ log' = Logged(log, {IF token' # PyNone THEN Rec("INFO", 68)
                                                     ELSE Rec("WARNING", 70)})
          /\ fakeid' = PyNone
          /\ probe' = 1
          /\ pc' = "login_fakeid"
          /\ UNCHANGED <<sessions, login_ret>>
     \/ \* tab.url raises at line 61: leaves the `async with`, caught at 119
        /\ log' = Logged(log, {Rec("CRITICAL", 120)})
        /\ sessions' = aexit(sessions)
        /\ login_return(PyNone)
        /\ UNCHANGED <<current_url, token, fakeid, probe>>
  /\ UNCHANGED <<navigations, evaluations, logged_in, login_check_attempts,
                 nickname, login_info, iterations, raises, probes, login_frame>>

\* variant of compose_login_info: whatever was extracted is returned, and
\* nothing only when neither token nor fakeid was
compose_login_info_partial(tok, fid, nick) ==
  IF Truthy(tok) \/ Truthy(fid)
  THEN PyDict([token |-> tok, fakeid |-> fid,
               nickname |-> IF Truthy(nick) THEN nick ELSE PyNone])
  ELSE PyNone

\* variant of compose_login_info: without a nickname there is no result
compose_login_info_needs_nickname(tok, fid, nick) ==
  IF Truthy(tok) /\ Truthy(fid) /\ Truthy(nick)
  THEN PyDict([token |-> tok, fakeid |-> fid, nickname |-> nick])
  ELSE PyNone

\* lines 104-111: the result composed from what was extracted
compose_login_info(tok, fid, nick) ==
  IF Truthy(tok) /\ Truthy(fid) /\ Truthy(nick)
  THEN PyDict([token |-> tok, fakeid |-> fid, nickname |-> nick])
  ELSE IF Truthy(tok) /\ Truthy(fid)
  THEN PyDict([token |-> tok, fakeid |-> fid, nickname |-> PyNone])
  ELSE PyNone

\* the log record of lines 104-111
compose_login_log(tok, fid, nick) ==
  IF Truthy(tok) /\ Truthy(fid) /\ Truthy(nick) THEN Rec("INFO", 106)
  ELSE IF Truthy(tok) /\ Truthy(fid) THEN Rec("WARNING", 109)
  ELSE Rec("ERROR", 111)

\* line 83: the script returned a result that counts as found
probe_found(result) == result # Raised /\ Truthy(result)

\* line 84: the fakeid a found result gives
fakeid_of(result) == PyStr(py_str(result))

\* variant of fakeid_loop_ends: the loop has no `break`
fakeid_loop_ends_no_break(k, result) == k = NumFakeidScripts

\* variant of fakeid_loop_ends: a script that raises ends the loop
fakeid_loop_ends_on_raise(k, result) ==
  k = NumFakeidScripts \/ probe_found(result) \/ result = Raised

\* lines 80, 86: the loop over the scripts ends once script number k has
\* been evaluated with `result`
fakeid_loop_ends(k, result) == k = NumFakeidScripts \/ probe_found(result)

\* lines 80-91: evaluate the next fakeid script
do_login_flow_fakeid(results) ==
  /\ pc = "login_fakeid"
  /\ probe <= NumFakeidScripts
  /\ \E result \in results \cup {Raised} :
       /\ evaluations' = Append(evaluations,
                                [session |-> cur, script |-> <<"fake_id", probe>>])
       /\ probes' = Append(probes, [script |-> probe, result |-> result])
       /\ fakeid' = IF probe_found(result) THEN fakeid_of(result) ELSE fakeid
       /\ probe' = probe + 1
       /\ pc' = IF fakeid_loop_ends(probe, result)
                THEN "login_nickname" ELSE "login_fakeid"
       /\ log' = Logged(log,
            (IF result = Raised THEN {Rec("WARNING", 88)}
             ELSE IF Truthy(result) THEN {Rec("INFO", 85)} ELSE {})
            \cup (IF fakeid_loop_ends(probe, result) /\ ~Truthy(fakeid')
                  THEN {Rec("WARNING", 91)} ELSE {}))
  /\ UNCHANGED <<sessions, navigations, logged_in, login_check_attempts,
                 current_url, token, nickname, login_info, iterations, raises,
                 login_ret, login_frame>>

\* lines 93-113: the nickname script, then the composition of login_info
do_login_flow_nickname(results) ==
  /\ pc = "login_nickname"
  /\ \E result \in results \cup {Raised} :
       /\ evaluations' = Append(evaluations,
                                [session |-> cur, script |-> <<"nick_name">>])
       /\ nickname' = IF probe_found(result) THEN result ELSE PyNone
       /\ login_info' = compose_login_info(token, fakeid, nickname')
       /\ log' = Logged(log,
            {IF result = Raised THEN Rec("ERROR", 102)
             ELSE IF Truthy(result) THEN Rec("INFO", 98) ELSE Rec("WARNING", 100),
             compose_login_log(token, fakeid, nickname'),
             Rec("INFO", 113)})
  /\ pc' = "login_sleep"
  /\ UNCHANGED <<sessions, navigations, logged_in, login_check_attempts,
                 current_url, token, fakeid, probe, iterations, raises, probes,
                 login_ret, login_frame>>

\* line 114: the final tab.sleep(2)
do_login_flow_sleep ==
  /\ pc = "login_sleep"
  /\ \E ok \in BOOLEAN :
       IF ok
       THEN /\ pc' = "login_exit"
            /\ UNCHANGED <<sessions, log, login_ret>>
       ELSE \* raises: leaves the `async with`, caught at line 119
            /\ sessions' = aexit(sessions)
            /\ log' = Logged(log, {Rec("CRITICAL", 120)})
            /\ login_return(PyNone)
  /\ UNCHANGED <<navigations, evaluations, login_vars, login_frame>>

\* lines 114-121: the end of the `async with` block and the return
do_login_flow_exit ==
  /\ pc = "login_exit"
  /\ sessions' = aexit(sessions)
  /\ \E ok \in BOOLEAN :
       IF ok
       THEN /\ log' = Logged(log, {Rec("INFO", 116)})
            /\ login_return(login_info)
       ELSE \* __aexit__ raised: caught at line 119
            /\ log' = Logged(log, {Rec("CRITICAL", 120)})
            /\ login_return(PyNone)
  /\ UNCHANGED <<navigations, evaluations, login_vars, login_frame>>

\* line 21: do_login_flow is entered
enter_do_login_flow ==
  /\ pc' = "login_start"
  /\ login_calls' = login_calls + 1
  /\ login_info' = PyNone
  /\ logged_in' = FALSE
  /\ login_check_attempts' = 0
  /\ current_url' = Unset
  /\ token' = Unset
  /\ fakeid' = Unset
  /\ nickname' = Unset
  /\ probe' = 0
  /\ iterations' = 0
  /\ raises' = 0
  /\ probes' = <<>>
  /\ login_ret' = Unset
  /\ login_raised' = FALSE

(***************************************************************************)
(* fetch_articles_command (main.py 124-147) and _fetch_and_print_articles  *)
(* (150-222).                                                              *)
(***************************************************************************)
\* what no step of the fetch changes
fetch_frame == <<via, cli_vars, login_vars, login_io, fetch_calls>>

\* variant of credentials_missing: the guard forgets the fakeid
credentials_missing_token_only(tok, fid) == ~Truthy(tok)

\* line 128: the guard on the arguments
credentials_missing(tok, fid) == ~Truthy(tok) \/ ~Truthy(fid)

\* lines 155-163: the address of the listing (every argument explored is
\* made of characters urlencode leaves as they are)
full_url(tok, fid) ==
  articles_url \o "?action=list_ex&begin=0&count=5&fakeid=" \o py_str(fid)
    \o "&type=101_1&token=" \o py_str(tok) \o "&lang=zh_CN&f=json&ajax=1"

\* lines 124-132: fetch_articles_command(tok, fid) is entered, l being the
\* log so far
enter_fetch_articles_command(tok, fid, l) ==
  /\ fetch_calls' = Append(fetch_calls, <<tok, fid>>)
  /\ fetch_token' = tok
  /\ fetch_fakeid' = fid
  /\ json_text_content' = Unset
  /\ parsed' = Unset
  /\ IF credentials_missing(tok, fid)
     THEN /\ log' = Logged(l, {Rec("ERROR", 129)})
          /\ fetch_return
     ELSE /\ log' = Logged(l, {Rec("INFO", 132)})
          /\ pc' = "fetch_start"
          /\ fetch_ret' = Unset

\* line 134: uc.start(...) and entering `async with`
fetch_articles_command_start ==
  /\ pc = "fetch_start"
  /\ \E ok \in BOOLEAN :
       IF ok
       THEN /\ sessions' = open_session(sessions, "fetch")
            /\ pc' = "fetch_get"
            /\ UNCHANGED <<log, fetch_ret>>
       ELSE \* uc.start raised: caught at line 146
            /\ log' = Logged(log, {Rec("CRITICAL", 147)})
            /\ fetch_return
            /\ UNCHANGED sessions
  /\ UNCHANGED <<navigations, evaluations, fetch_vars, fetch_frame>>

\* lines 139-142: driver.get('about:blank')
fetch_articles_command_get ==
  /\ pc = "fetch_get"
  /\ navigations' = Append(navigations, [session |-> cur, url |-> BlankUrl])
  /\ \E outcome \in {"tab", "no tab", "raises"} :
       IF outcome = "tab"
       THEN /\ log' = Logged(log, {Rec("INFO", 160)})
            /\ pc' = "fetch_navigate"
            /\ UNCHANGED <<sessions, fetch_ret>>
       ELSE \* return at line 142, or an exception caught at line 146
            /\ log' = Logged(log, {IF outcome = "no tab" THEN Rec("ERROR", 141)
                                                          ELSE Rec("CRITICAL", 147)})
            /\ sessions' = aexit(sessions)
            /\ fetch_return
  /\ UNCHANGED <<evaluations, fetch_vars, fetch_frame>>

\* lines 162-165: tab.get(full_url)
fetch_and_print_articles_navigate ==
  /\ pc = "fetch_navigate"
  /\ navigations' = Append(navigations,
                           [session |-> cur,
                            url |-> full_url(fetch_token, fetch_fakeid)])
  /\ \E ok \in BOOLEAN :
       IF ok
       THEN /\ pc' = "fetch_body"
            /\ UNCHANGED log
       ELSE \* caught at line 216
            /\ pc' = "fetch_on_error"
            /\ log' = Logged(log, {Rec("ERROR", 217)})
  /\ UNCHANGED <<sessions, evaluations, fetch_vars, fetch_ret, fetch_frame>>

\* variant of after_parse: after an exception the listing is fetched again
after_parse_retries(outcome) ==
  IF outcome.status = "exception" THEN "fetch_navigate" ELSE "fetch_sleep"

\* where _fetch_and_print_articles goes after lines 170-214
after_parse(outcome) ==
  IF outcome.status = "exception" THEN "fetch_on_error" ELSE "fetch_sleep"

\* lines 168-217: read the page text, decode it and print the titles
fetch_and_print_articles_body(texts) ==
  /\ pc = "fetch_body"
  /\ evaluations' = Append(evaluations,
                           [session |-> cur, script |-> <<"textContent">>])
  /\ \/ \E text \in texts :
          /\ json_text_content' = text
          /\ parsed' = parse_and_print(text)
          /\ log' = LoggedAll(log, parsed'.logs)
          /\ pc' = after_parse(parsed')
     \/ \* tab.evaluate raises: caught at line 216
        /\ log' = Logged(log, {Rec("ERROR", 217)})
        /\ pc' = "fetch_on_error"
        /\ UNCHANGED <<json_text_content, parsed>>
  /\ UNCHANGED <<sessions, navigations, fetch_token, fetch_fakeid, fetch_ret,
                 fetch_frame>>

\* lines 218-222: the except clause reads the page text again
fetch_and_print_articles_on_error ==
  /\ pc = "fetch_on_error"
  /\ evaluations' = Append(evaluations,
                           [session |-> cur, script |-> <<"textContent">>])
  /\ \E ok \in BOOLEAN :
       log' = IF ok THEN log ELSE Logged(log, {Rec("ERROR", 222)})
  /\ pc' = "fetch_sleep"
  /\ UNCHANGED <<sessions, navigations, fetch_vars, fetch_ret, fetch_frame>>

\* line 144: tab.sleep(2) after _fetch_and_print_articles returned
fetch_articles_command_sleep ==
  /\ pc = "fetch_sleep"
  /\ \E ok \in BOOLEAN :
       IF ok
       THEN /\ pc' = "fetch_exit"
            /\ UNCHANGED <<sessions, log, fetch_ret>>
       ELSE \* raises: leaves the `async with`, caught at line 146
            /\ sessions' = aexit(sessions)
            /\ log' = Logged(log, {Rec("CRITICAL", 147)})
            /\ fetch_return
  /\ UNCHANGED <<navigations, evaluations, fetch_vars, fetch_frame>>

\* lines 144-147: the end of the `async with` block and the return
fetch_articles_command_exit ==
  /\ pc = "fetch_exit"
  /\ sessions' = aexit(sessions)
  /\ \E ok \in BOOLEAN :
       log' = Logged(log, {IF ok THEN Rec("INFO", 145) ELSE Rec("CRITICAL", 147)})
  /\ fetch_return
  /\ UNCHANGED <<navigations, evaluations, fetch_vars, fetch_frame>>

(***************************************************************************)
(* main_cli (main.py 224-286).                                             *)
(***************************************************************************)
\* lines 229-237: parser.parse_args() on the arguments from position k on
RECURSIVE parse_from(_, _, _)
parse_from(a, k, ns) ==
  IF k > Len(a) THEN ns
  ELSE CASE a[k] = "--login" -> parse_from(a, k + 1, [ns EXCEPT !.login = TRUE])
         [] a[k] = "--get-articles" ->
              parse_from(a, k + 1, [ns EXCEPT !.get_articles = TRUE])
         [] a[k] = "--debug" -> parse_from(a, k + 1, [ns EXCEPT !.debug = TRUE])
         [] a[k] = "--token" ->
              parse_from(a, k + 2, [ns EXCEPT !.token = PyStr(a[k + 1])])
         [] a[k] = "--fakeid" ->
              parse_from(a, k + 2, [ns EXCEPT !.fakeid = PyStr(a[k + 1])])

parse_args(a) ==
  parse_from(a, 2, [login |-> FALSE, get_articles |-> FALSE, debug |-> FALSE,
                    token |-> PyNone, fakeid |-> PyNone])

\* variant of command: --get-articles is tested before --login
command_get_articles_first(ns) ==
  IF ns.get_articles THEN "get_articles"
  ELSE IF ns.login THEN "login"
  ELSE "none"

\* lines 246, 254, 278: the branch the parsed arguments select
command(ns) ==
  IF ns.login THEN "login"
  ELSE IF ns.get_articles THEN "get_articles"
  ELSE "none"

\* line 259: the login is needed before the fetch
needs_login(tok, fid) == ~Truthy(tok) \/ ~Truthy(fid)

\* variant of login_usable: any truthy result of the login is accepted
login_usable_any_result(details) == Truthy(details)

\* line 263: the login returned what the fetch needs
login_usable(details) ==
  /\ Truthy(details)
  /\ Truthy(dict_get(details, "token", PyNone))
  /\ Truthy(dict_get(details, "fakeid", PyNone))

\* lines 237-284: parse the arguments and start the command they select
main_cli_start(lines) ==
  /\ pc = "idle"
  /\ \E a \in lines :
       LET ns == parse_args(a) IN
       /\ argv' = a
       /\ args' = ns
       /\ login_details' = Unset
       /\ IF command(ns) = "login"
          THEN \* lines 246-248
               /\ via' = "cli_login"
               /\ log' = Logged(log, {Rec("INFO", 247)})
               /\ enter_do_login_flow
               /\ UNCHANGED <<token_to_use, fakeid_to_use, help_printed,
                              fetch_vars, fetch_io>>
          ELSE IF command(ns) = "get_articles"
          THEN \* lines 254-275
               /\ via' = "cli_get"
               /\ token_to_use' = ns.token
               /\ fakeid_to_use' = ns.fakeid
               /\ UNCHANGED help_printed
               /\ IF needs_login(ns.token, ns.fakeid)
                  THEN /\ log' = Logged(log, {Rec("INFO", 255), Rec("INFO", 260)})
                       /\ enter_do_login_flow
                       /\ UNCHANGED <<fetch_vars, fetch_io>>
                  ELSE /\ enter_fetch_articles_command(
                            ns.token, ns.fakeid, Logged(log, {Rec("INFO", 255)}))
                       /\ UNCHANGED <<login_vars, login_io>>
          ELSE \* lines 279-284
               /\ via' = "cli"
               /\ pc' = "done"
               /\ help_printed' = (Len(a) = 1)
               /\ log' = IF Len(a) = 1 THEN log
                         ELSE Logged(log, {Rec("WARNING", 284)})
               /\ UNCHANGED <<token_to_use, fakeid_to_use, login_vars, login_io,
                              fetch_vars, fetch_io>>
  /\ UNCHANGED env_vars

\* variant of main_cli_after_login: a value supplied on the command line is
\* kept, and only the missing one is taken from the login
main_cli_after_login_keeps_supplied ==
  /\ pc = "cli_login_returned"
  /\ login_details' = IF login_raised THEN login_details ELSE login_ret
  /\ IF via = "cli_login"
     THEN \* lines 249-252, or the except clause of line 285
          /\ log' = Logged(log, {IF login_raised THEN Rec("CRITICAL", 286)
                                 ELSE IF Truthy(login_ret) THEN Rec("INFO", 250)
                                 ELSE Rec("WARNING", 252)})
          /\ pc' = "done"
          /\ UNCHANGED <<token_to_use, fakeid_to_use, fetch_vars, fetch_io>>
     ELSE IF login_raised
     THEN \* lines 270-272
          /\ log' = Logged(log, {Rec("CRITICAL", 271)})
          /\ pc' = "done"
          /\ UNCHANGED <<token_to_use, fakeid_to_use, fetch_vars, fetch_io>>
     ELSE IF login_usable(login_ret)
     THEN \* lines 263-266, then 274-275
          /\ token_to_use' = IF Truthy(token_to_use) THEN token_to_use
                           ELSE dict_get(login_ret, "token", PyNone)
          /\ fakeid_to_use' = IF Truthy(fakeid_to_use) THEN fakeid_to_use
                            ELSE dict_get(login_ret, "fakeid", PyNone)
          /\ enter_fetch_articles_command(
               token_to_use', fakeid_to_use', Logged(log, {Rec("INFO", 266)}))
     ELSE \* lines 267-269
          /\ log' = Logged(log, {Rec("ERROR", 268)})
          /\ pc' = "done"
          /\ UNCHANGED <<token_to_use, fakeid_to_use, fetch_vars, fetch_io>>
  /\ UNCHANGED <<via, env_vars, argv, args, help_printed, login_vars, login_io>>

\* lines 248-252 and 262-277: do_login_flow has returned (or raised) to
\* main_cli
main_cli_after_login ==
  /\ pc = "cli_login_returned"
  /\ login_details' = IF login_raised THEN login_details ELSE login_ret
  /\ IF via = "cli_login"
     THEN \* lines 249-252, or the except clause of line 285
          /\ log' = Logged(log, {IF login_raised THEN Rec("CRITICAL", 286)
                                 ELSE IF Truthy(login_ret) THEN Rec("INFO", 250)
                                 ELSE Rec("WARNING", 252)})
          /\ pc' = "done"
          /\ UNCHANGED <<token_to_use, fakeid_to_use, fetch_vars, fetch_io>>
     ELSE IF login_raised
     THEN \* lines 270-272
          /\ log' = Logged(log, {Rec("CRITICAL", 271)})
          /\ pc' = "done"
          /\ UNCHANGED <<token_to_use, fakeid_to_use, fetch_vars, fetch_io>>
     ELSE IF login_usable(login_ret)
     THEN \* lines 263-266, then 274-275
          /\ token_to_use' = dict_get(login_ret, "token", PyNone)
          /\ fakeid_to_use' = dict_get(login_ret, "fakeid", PyNone)
          /\ enter_fetch_articles_command(
               token_to_use', fakeid_to_use', Logged(log, {Rec("INFO", 266)}))
     ELSE \* lines 267-269
          /\ log' = Logged(log, {Rec("ERROR", 268)})
          /\ pc' = "done"
          /\ UNCHANGED <<token_to_use, fakeid_to_use, fetch_vars, fetch_io>>
  /\ UNCHANGED <<via, env_vars, argv, args, help_printed, login_vars, login_io>>

\* line 275: fetch_articles_command has returned to main_cli
main_cli_after_fetch ==
  /\ pc = "cli_fetch_returned"
  /\ pc' = "done"
  /\ UNCHANGED <<via, env_vars, log, cli_vars, login_vars, login_io, fetch_vars,
                 fetch_io>>

(***************************************************************************)
(* The operations called on their own, and the stand-ins the tests of      *)
(* TestCLIArgs put in place of the two operations.                         *)
(***************************************************************************)
\* do_login_flow() called on its own, as TestLoginFlow does
call_do_login_flow ==
  /\ pc = "idle"
  /\ via' = "direct"
  /\ enter_do_login_flow
  /\ UNCHANGED <<env_vars, log, cli_vars, fetch_vars, fetch_io>>

\* fetch_articles_command(tok, fid) called on its own
call_fetch_articles_command(credentials) ==
  /\ pc = "idle"
  /\ via' = "direct"
  /\ \E tok \in credentials, fid \in credentials :
       enter_fetch_articles_command(tok, fid, log)
  /\ UNCHANGED <<env_vars, cli_vars, login_vars, login_io>>

\* return values of the AsyncMock standing for do_login_flow
MockLoginResults ==
  {PyNone, EmptyDict,
   PyDict([token |-> PyStr("logintoken"), fakeid |-> PyStr("loginfakeid"),
           nickname |-> PyStr("loginuser")]),
   PyDict([token |-> PyStr("logintoken"), fakeid |-> PyStr("loginfakeid"),
           nickname |-> PyNone]),
   PyDict([token |-> PyStr("logintoken"), fakeid |-> PyNone,
           nickname |-> PyNone]),
   PyDict([token |-> PyNone, fakeid |-> PyStr("loginfakeid"),
           nickname |-> PyStr("loginuser")]),
   PyDict([token |-> PyStr(""), fakeid |-> PyStr("loginfakeid"),
           nickname |-> PyNone])}

\* the AsyncMock standing for do_login_flow returns a value or raises
mock_do_login_flow ==
  /\ pc = "login_start"
  /\ \/ \E r \in MockLoginResults : login_ret' = r /\ UNCHANGED login_raised
     \/ login_raised' = TRUE /\ UNCHANGED login_ret
  /\ pc' = "cli_login_returned"
  /\ UNCHANGED <<via, env_vars, log, cli_vars, login_vars, login_calls,
                 fetch_vars, fetch_io>>

\* the AsyncMock standing for fetch_articles_command returns
mock_fetch_articles_command ==
  /\ pc = "fetch_start"
  /\ fetch_return
  /\ UNCHANGED <<via, env_vars, log, cli_vars, login_vars, login_io, fetch_vars,
                 fetch_calls>>

(***************************************************************************)
(* Specifications.                                                         *)
(***************************************************************************)
Init ==
  /\ pc = "idle"
  /\ via = "none"
  /\ sessions = <<>>
  /\ navigations = <<>>
  /\ evaluations = <<>>
  /\ log = EmptyBag
  /\ argv = <<>>
  /\ args = Unset
  /\ token_to_use = Unset
  /\ fakeid_to_use = Unset
  /\ login_details = Unset
  /\ help_printed = FALSE
  /\ logged_in = FALSE
  /\ login_check_attempts = 0
  /\ current_url = Unset
  /\ token = Unset
  /\ fakeid = Unset
  /\ nickname = Unset
  /\ login_info = Unset
  /\ probe = 0
  /\ iterations = 0
  /\ raises = 0
  /\ probes = <<>>
  /\ login_calls = 0
  /\ login_ret = Unset
  /\ login_raised = FALSE
  /\ fetch_token = Unset
  /\ fetch_fakeid = Unset
  /\ json_text_content = Unset
  /\ parsed = Unset
  /\ fetch_calls = <<>>
  /\ fetch_ret = Unset

\* the steps of do_login_flow, given what the browser can answer
LoginSteps(addresses, results) ==
  \/ do_login_flow_start
  \/ do_login_flow_get
  \/ do_login_flow_wait_read(addresses)
  \/ do_login_flow_wait_raise
  \/ do_login_flow_after_wait
  \/ do_login_flow_token(addresses)
  \/ do_login_flow_fakeid(results)
  \/ do_login_flow_nickname(results)
  \/ do_login_flow_sleep
  \/ do_login_flow_exit

\* the steps of fetch_articles_command, given the page texts
FetchSteps(texts) ==
  \/ fetch_articles_command_start
  \/ fetch_articles_command_get
  \/ fetch_and_print_articles_navigate
  \/ fetch_and_print_articles_body(texts)
  \/ fetch_and_print_articles_on_error
  \/ fetch_articles_command_sleep
  \/ fetch_articles_command_exit

\* each operation called on its own
Next ==
  \/ call_do_login_flow
  \/ call_fetch_articles_command(CredArgs)
  \/ LoginSteps(Urls, ScriptResults)
  \/ FetchSteps(PageTexts)

Spec == Init /\ [][Next]_vars

\* the program: main_cli with the two operations it calls
CliUrls == {LoginPageUrl, HomeUrlWithToken, HomeUrlNoToken}
CliScriptResults == {PyNone, PyStr("MzA5")}

NextCli ==
  \/ main_cli_start(CommandLines)
  \/ main_cli_after_login
  \/ main_cli_after_fetch
  \/ LoginSteps(CliUrls, CliScriptResults)
  \/ FetchSteps(CliPageTexts)

SpecCli == Init /\ [][NextCli]_vars

\* do_login_flow with a browser that another party may close during the
\* wait, after which every sleep of the loop raises.  The event loop keeps
\* running the coroutine: a step that can be taken is taken.
NextClosed ==
  \/ call_do_login_flow
  \/ do_login_flow_start
  \/ do_login_flow_get
  \/ (pc = "login_wait" /\ sessions[cur].open
                        /\ do_login_flow_wait_read(CliUrls))
  \/ (pc = "login_wait" /\ sessions[cur].open /\ do_login_flow_wait_raise)
  \/ close_out_of_band
  \/ do_login_flow_wait_closed
  \/ do_login_flow_backoff
  \/ do_login_flow_after_wait
  \/ do_login_flow_token(CliUrls)
  \/ do_login_flow_fakeid(CliScriptResults)
  \/ do_login_flow_nickname(CliScriptResults)
  \/ do_login_flow_sleep
  \/ do_login_flow_exit

SpecClosed == Init /\ [][NextClosed]_vars /\ WF_vars(NextClosed)

\* main_cli as the tests of TestCLIArgs run it, both operations replaced
NextMock ==
  \/ main_cli_start(CommandLines)
  \/ main_cli_after_login
  \/ main_cli_after_fetch
  \/ mock_do_login_flow
  \/ mock_fetch_articles_command

SpecMock == Init /\ [][NextMock]_vars


(***************************************************************************)
(* Properties.                                                             *)
(***************************************************************************)
\* do_login_flow has returned through the return statement of line 117
login_returned_normally ==
  login_ret # Unset /\ BagIn(Rec("INFO", 116), log)

\* C1: the wait loop of do_login_flow runs at most max_login_check_attempts
\* (120) iterations, whether an iteration's sleep and address read return a
\* matching address, return another address, or raise.
C1_poll_loop_bounded == iterations <= max_login_check_attempts

\* every session the given operation opened has been closed
owned_closed(owner) ==
  \A i \in DOMAIN sessions : sessions[i].owner = owner => ~sessions[i].open

\* C2: whenever do_login_flow or fetch_articles_command has returned to its
\* caller, the browser session it opened has been closed, on every path.
C2_session_closed_on_return ==
  /\ login_ret # Unset => owned_closed("login")
  /\ fetch_ret # Unset => owned_closed("fetch")

\* C2 happens: do_login_flow returned after an exception was raised while
\* its session was open.
C2_returned_after_exception ==
  /\ login_ret = PyNone
  /\ sessions # <<>>
  /\ logged_in
  /\ BagIn(Rec("CRITICAL", 120), log)

\* C3 as claimed: after an authenticated login that recovered exactly one of
\* token and fakeid, do_login_flow returns the partial credentials, and it
\* returns nothing only when neither was recovered.
C3_partial_credentials_returned ==
  login_returned_normally =>
    /\ (Truthy(token) # Truthy(fakeid)) => login_ret.t = "dict"
    /\ login_ret = PyNone => ~Truthy(token) /\ ~Truthy(fakeid)

\* C3 as amended: after an authenticated login, do_login_flow returns
\* credentials (token, fakeid and the nickname or None) exactly when both
\* token and fakeid were recovered; when either is missing it logs the
\* error of line 111 and returns None.
C3_credentials_need_token_and_fakeid ==
  login_returned_normally =>
    IF Truthy(token) /\ Truthy(fakeid)
    THEN login_ret = PyDict([token |-> token, fakeid |-> fakeid,
                             nickname |-> nickname])
    ELSE login_ret = PyNone /\ BagIn(Rec("ERROR", 111), log)

\* C3 happens: the login returned with a token and without a fakeid.
C3_token_without_fakeid ==
  /\ login_returned_normally
  /\ Truthy(token)
  /\ ~Truthy(fakeid)
  /\ login_ret = PyNone

\* C4: every entry of publish_list is examined exactly once and in order,
\* whatever its shape: no entry's failure stops the loop.
C4_every_entry_examined ==
  (parsed # Unset /\ parsed.entries > 0) =>
    /\ Len(parsed.examined) = parsed.entries
    /\ \A k \in DOMAIN parsed.examined :
         parsed.examined[k].index = k /\ parsed.examined[k].exc = "none"

\* the page text is valid JSON
body_is_json ==
  json_text_content.t = "str" /\ json_loads(json_text_content.s).ok

\* C5: a page text that is valid JSON and has no entries under
\* publish_page.publish_list (absent, empty or not a collection, at any level)
\* ends in the empty listing, and no error is raised or logged.
C5_json_without_entries_is_empty ==
  (parsed # Unset /\ body_is_json /\ parsed.entries = 0) =>
    /\ parsed.status = "empty"
    /\ \A k \in DOMAIN parsed.logs : parsed.logs[k].level # "ERROR"

\* script number k is the first whose result counted as found
first_found(k) ==
  /\ k \in DOMAIN probes
  /\ probe_found(probes[k].result)
  /\ \A j \in 1..(k - 1) : ~probe_found(probes[j].result)

\* C6 as claimed: the fakeid scripts are evaluated in list order; if script
\* k is the first to return a truthy value, no later script is evaluated and
\* the fakeid (also the one returned) is exactly the result of script k.
C6_first_truthy_probe_is_the_fakeid ==
  /\ \A i \in DOMAIN probes : probes[i].script = i
  /\ \A k \in DOMAIN probes :
       first_found(k) =>
         /\ k = Len(probes)
         /\ fakeid = probes[k].result
         /\ login_ret.t = "dict" => login_ret.d["fakeid"] = probes[k].result

\* C6 as amended: the fakeid scripts are evaluated in list order; if script
\* k is the first to return a truthy value, no later script is evaluated and
\* the fakeid (also the one returned) is str() of the result of script k:
\* that result itself when it is a string, its text otherwise.
C6_first_truthy_probe_as_text ==
  /\ \A i \in DOMAIN probes : probes[i].script = i
  /\ \A k \in DOMAIN probes :
       first_found(k) =>
         /\ k = Len(probes)
         /\ fakeid = PyStr(py_str(probes[k].result))
         /\ probes[k].result.t = "str" => fakeid = probes[k].result
         /\ login_ret.t = "dict" => login_ret.d["fakeid"] = fakeid

\* C6 happens: the first script found nothing, the second returned a number,
\* and the login returned credentials.
C6_second_probe_wins ==
  /\ Len(probes) = 2
  /\ ~probe_found(probes[1].result)
  /\ probes[2].result = PyInt(3094)
  /\ login_ret.t = "dict"

\* nothing of the browser was used by the given operation
untouched(owner) ==
  /\ \A i \in DOMAIN sessions : sessions[i].owner # owner
  /\ \A n \in DOMAIN navigations :
       sessions[navigations[n].session].owner # owner
  /\ \A e \in DOMAIN evaluations :
       sessions[evaluations[e].session].owner # owner

\* C7: fetch_articles_command called with a token or fakeid that is None or
\* empty returns at once: it opens no session, navigates nowhere and
\* evaluates no script.
C7_no_browser_without_credentials ==
  \A c \in DOMAIN fetch_calls :
    (~Truthy(fetch_calls[c][1]) \/ ~Truthy(fetch_calls[c][2])) =>
      untouched("fetch") /\ fetch_ret = PyNone

\* C7 happens: the fetch was called with a token and an empty fakeid.
C7_called_with_empty_fakeid ==
  /\ fetch_calls = << <<PyStr("1234567"), PyStr("")>> >>
  /\ fetch_ret = PyNone
  /\ BagIn(Rec("ERROR", 129), log)

\* the entries of publish_list in the page text
listed_items ==
  py_iter(dict_get(dict_get(json_loads(json_text_content.s).v,
                            "publish_page", EmptyDict),
                   "publish_list", PyList(<<>>)))

\* v is an object with a non-empty title
has_title(v) == v.t = "dict" /\ Truthy(dict_get(v, "title", PyNone))

\* r is what the first rule that applies to the item gives
first_match(item, r) ==
  IF has_title(dict_get(item, "appmsg_info", PyNone))
  THEN r.line = 192 /\ r.title = item.d["appmsg_info"].d["title"]
  ELSE IF Truthy(dict_get(item, "publish_info", PyNone))
  THEN r.line \in {200, 204, 207, 209}
  ELSE IF Truthy(dict_get(item, "title", PyNone))
  THEN r.line = 212 /\ r.title = item.d["title"]
  ELSE r.line = 214 /\ r.title = PyNone

\* C8: the title of an entry comes from the first rule that applies, in the
\* order appmsg_info.title, publish_info, top-level title, not found (so an
\* entry with a top-level title and an appmsg_info title gets the latter),
\* and the four entries of the example give Hello, World, Direct and no
\* title.
C8_first_rule_wins ==
  parsed # Unset =>
    /\ parsed.examined # <<>> =>
         LET items == listed_items
         IN \A k \in DOMAIN parsed.examined :
              parsed.examined[k].exc = "none" =>
                first_match(items[k], parsed.examined[k])
    /\ json_text_content = PyStr(ExampleBody) =>
         /\ parsed.status = "listed"
         /\ [k \in 1..4 |-> parsed.examined[k].title]
              = <<PyStr("Hello"), PyStr("World"), PyStr("Direct"), PyNone>>
         /\ [k \in 1..4 |-> parsed.examined[k].line] = <<192, 200, 212, 214>>

\* C8 happens: the entry with both titles was listed after another entry.
C8_both_titles_listed ==
  /\ parsed # Unset
  /\ json_text_content = PyStr(ListBody(<<ItemPublishInfo, ItemBoth>>))
  /\ parsed.status = "listed"
  /\ parsed.examined[2].title = PyStr("Nested")

\* the command line has the option
HasFlag(a, f) == \E k \in DOMAIN a : a[k] = f

\* the value that follows the option on the command line
ArgValue(a, f) == a[(CHOOSE k \in DOMAIN a : a[k] = f) + 1]

\* the command line gives a non-empty value to the option
HasValue(a, f) == HasFlag(a, f) /\ ArgValue(a, f) # ""

\* main_cli has parsed its command line
cli_started == args # Unset

\* the command line asks for the articles and not for the login
get_articles_only == HasFlag(argv, "--get-articles") /\ ~HasFlag(argv, "--login")

\* what C9 says of --login and of the empty command line
C9_login_and_usage ==
  /\ HasFlag(argv, "--login") =>
       /\ login_calls = 1
       /\ fetch_calls = <<>>
  /\ Len(argv) = 1 =>
       /\ login_calls = 0
       /\ fetch_calls = <<>>
       /\ help_printed

\* C9 as claimed: with --login, do_login_flow is called once and
\* fetch_articles_command never (also with --get-articles); with
\* --get-articles and both --token and --fakeid supplied, do_login_flow is
\* never called and fetch_articles_command is called once with the supplied
\* values; with no arguments neither is called and the usage is printed.
C9_dispatch_with_supplied_values ==
  cli_started =>
    /\ C9_login_and_usage
    /\ (get_articles_only /\ HasFlag(argv, "--token")
                          /\ HasFlag(argv, "--fakeid")) =>
         /\ login_calls = 0
         /\ fetch_calls = << <<PyStr(ArgValue(argv, "--token")),
                               PyStr(ArgValue(argv, "--fakeid"))>> >>

\* C9 as amended: the same, the second case holding when both --token and
\* --fakeid are supplied with non-empty values (an empty value counts as
\* not provided, and the login is performed).
C9_dispatch_with_non_empty_values ==
  cli_started =>
    /\ C9_login_and_usage
    /\ (get_articles_only /\ HasValue(argv, "--token")
                          /\ HasValue(argv, "--fakeid")) =>
         /\ login_calls = 0
         /\ fetch_calls = << <<PyStr(ArgValue(argv, "--token")),
                               PyStr(ArgValue(argv, "--fakeid"))>> >>

\* C9 happens: main_cli has finished a fetch with the values of the
\* command line.
C9_fetched_with_given_values ==
  /\ pc = "done"
  /\ argv = <<"main.py", "--get-articles", "--token", "T1", "--fakeid", "F1">>
  /\ fetch_ret = PyNone
  /\ parsed # Unset

\* the login returned a token and a fakeid
login_gave_both ==
  /\ ~login_raised
  /\ login_ret.t = "dict"
  /\ Truthy(dict_get(login_ret, "token", PyNone))
  /\ Truthy(dict_get(login_ret, "fakeid", PyNone))

\* C10: with --get-articles and the token or the fakeid missing from the
\* command line (or empty), main_cli performs do_login_flow once, before
\* any fetch; fetch_articles_command is called once, with the token and
\* the fakeid the login returned, if it returned both, and never if the
\* login failed, raised or returned without both.
C10_login_before_fetch ==
  (cli_started /\ get_articles_only
     /\ ~(HasValue(argv, "--token") /\ HasValue(argv, "--fakeid"))) =>
    /\ login_calls = 1
    /\ Len(fetch_calls) <= 1
    /\ fetch_calls # <<>> =>
         /\ login_gave_both
         /\ fetch_calls[1] = <<login_ret.d["token"], login_ret.d["fakeid"]>>
    /\ (pc = "done" /\ login_gave_both) => Len(fetch_calls) = 1

\* C10 happens: only the token was given, the login returned both values
\* and main_cli has finished the fetch.
C10_fetched_after_login ==
  /\ pc = "done"
  /\ argv = <<"main.py", "--get-articles", "--token", "T1">>
  /\ login_calls = 1
  /\ fetch_calls = << <<PyStr("logintoken"), PyStr("loginfakeid")>> >>
  /\ fetch_ret = PyNone

\* do_login_flow returned at line 58, the wait loop having run out
timed_out == login_ret # Unset /\ BagIn(Rec("WARNING", 57), log)

\* do_login_flow returned at line 117 after a login that did not give both
\* the token and the fakeid
login_incomplete ==
  login_returned_normally /\ ~(Truthy(token) /\ Truthy(fakeid))

\* fetch_articles_command returned after the navigation or the body read
\* failed (line 217) or the body was no JSON (line 174)
fetch_failed ==
  /\ fetch_ret # Unset
  /\ BagIn(Rec("ERROR", 174), log) \/ BagIn(Rec("ERROR", 217), log)

wait_loop_entered == BagIn(Rec("INFO", 31), log)

\* C12: an iteration of the wait loop whose sleep or address read raises
\* counts as no match and the loop goes on: do_login_flow fails in the loop
\* only by timeout, after max_login_check_attempts reads that did not
\* match, and a read of the home address ends the loop in success also
\* after iterations that raised.
C12_failed_read_is_no_match ==
  /\ (pc = "login_wait" /\ raises > 0) =>
       login_ret = Unset /\ sessions[cur].open
  /\ (login_ret # Unset /\ wait_loop_entered /\ ~logged_in) =>
       /\ timed_out
       /\ login_check_attempts = max_login_check_attempts
       /\ iterations = max_login_check_attempts + raises
  /\ (pc = "login_wait" /\ iterations > raises
        /\ Contains(current_url.s, HomePath)) => logged_in

\* C12 happens: an iteration raised, a later one read the home address, and
\* the login returned credentials.
C12_success_after_failed_read ==
  /\ raises > 0
  /\ logged_in
  /\ login_ret.t = "dict"

\* the browser of do_login_flow was closed while it waits in the loop
closed_while_waiting ==
  pc \in {"login_wait", "login_backoff"} /\ ~sessions[cur].open

\* C13: once the browser has been closed by another party during the wait,
\* so that every later sleep or address read of the loop raises,
\* do_login_flow eventually returns.
C13_closed_session_ends_the_login ==
  closed_while_waiting ~> (login_ret # Unset)

\* the sessions that are open
open_sessions == {i \in DOMAIN sessions : sessions[i].open}

\* the operation whose code navigates to the address
navigated_by(url) == IF url = LoginPageUrl THEN "login" ELSE "fetch"

\* the operation whose code evaluates the script
evaluated_by(script) ==
  IF script[1] \in {"fake_id", "nick_name"} THEN "login" ELSE "fetch"

\* C14: in a run of main_cli at most one browser session is open at a time
\* and none is used by both operations: a session is opened only after
\* every earlier one was closed (so the login's before the fetch's), and
\* each operation navigates and evaluates only in the session it opened.
C14_one_session_per_operation ==
  /\ Cardinality(open_sessions) <= 1
  /\ \A i, j \in DOMAIN sessions : i < j => ~sessions[i].open
  /\ \A i, j \in DOMAIN sessions :
       i < j => sessions[i].owner = "login" /\ sessions[j].owner = "fetch"
  /\ \A n \in DOMAIN navigations :
       sessions[navigations[n].session].owner
         = navigated_by(navigations[n].url)
  /\ \A e \in DOMAIN evaluations :
       sessions[evaluations[e].session].owner
         = evaluated_by(evaluations[e].script)

\* C14 happens: --get-articles led to a login, whose session is closed, and
\* the fetch reads the page in the session it opened.
C14_fetch_in_its_own_session ==
  /\ via = "cli_get"
  /\ Len(sessions) = 2
  /\ ~sessions[1].open
  /\ sessions[2].open
  /\ \E e \in DOMAIN evaluations :
       evaluations[e].session = 2 /\ evaluations[e].script = <<"textContent">>

\* do_login_flow has composed login_info (lines 104-111) in this call
login_composed ==
  pc \in {"login_sleep", "login_exit"} \/ login_returned_normally

\* the nickname script returned nothing or raised (lines 100, 102)
nickname_not_found ==
  BagIn(Rec("WARNING", 100), log) \/ BagIn(Rec("ERROR", 102), log)

nickname_probed ==
  \E e \in DOMAIN evaluations : evaluations[e].script = <<"nick_name">>

\* C16: a fakeid script whose evaluation raises counts as no result (the
\* warning of line 88 is logged and the fakeid stays as it was) and the
\* next script in order is still evaluated; a raising script ends neither
\* the chain nor the login, which goes on to the nickname script.
C16_raising_probe_is_no_result ==
  \A k \in DOMAIN probes :
    probes[k].result = Raised =>
      /\ BagIn(Rec("WARNING", 88), log)
      /\ k < NumFakeidScripts =>
           \/ Len(probes) > k /\ probes[k + 1].script = k + 1
           \/ pc = "login_fakeid" /\ probe = k + 1 /\ login_ret = Unset
      /\ (k = Len(probes) /\ \A j \in 1..k : ~probe_found(probes[j].result)) =>
           fakeid = PyNone
      /\ login_ret # Unset => nickname_probed

\* C16 happens: the first fakeid script raised, the second gave the fakeid
\* and the login returned it.
C16_found_after_raising_probe ==
  /\ Len(probes) = 2
  /\ probes[1].result = Raised
  /\ probe_found(probes[2].result)
  /\ login_returned_normally
  /\ login_ret.t = "dict"
  /\ login_ret.d["fakeid"] = fakeid_of(probes[2].result)

\* the navigations of session i to an address of the listing
listing_navigations(i) ==
  {n \in DOMAIN navigations :
     navigations[n].session = i /\ navigations[n].url # BlankUrl}

\* the sessions opened by fetch_articles_command
fetch_sessions == {i \in DOMAIN sessions : sessions[i].owner = "fetch"}

\* C17: one invocation of fetch_articles_command opens at most one session
\* and navigates to the address of the listing at most once in it, whether
\* the navigation, the reading of the page text or the parsing succeeds or
\* fails: nothing is tried again.
C17_listing_navigated_at_most_once ==
  /\ Cardinality(fetch_sessions) <= Len(fetch_calls)
  /\ \A i \in fetch_sessions :
       /\ Cardinality(listing_navigations(i)) <= 1
       /\ \A n \in listing_navigations(i) :
            navigations[n].url = full_url(fetch_token, fetch_fakeid)
       /\ (fetch_ret # Unset /\ parsed # Unset) =>
            Cardinality(listing_navigations(i)) = 1

\* C17 happens: the page text could not be parsed, the fetch has returned,
\* and the listing was asked for once.
C17_returned_after_failed_parse ==
  /\ fetch_ret # Unset
  /\ parsed # Unset
  /\ parsed.status = "exception"
  /\ BagIn(Rec("ERROR", 217), log)
  /\ \E i \in fetch_sessions : Cardinality(listing_navigations(i)) = 1

\* the title a decoded sub-item yields: its direct title, else the title of
\* its nested appmsg_info, else none
sub_title(sub) ==
  IF has_title(sub) THEN sub.d["title"]
  ELSE IF sub.t = "dict" /\ has_title(dict_get(sub, "appmsg_info", PyNone))
  THEN sub.d["appmsg_info"].d["title"]
  ELSE PyNone

\* the sub-items a decoded publish_info holds
decoded_sub_items(decoded) ==
  IF decoded.ok /\ decoded.v.t = "list" THEN decoded.v.l ELSE <<>>

\* the sub-items of a publish_info
sub_items(publish_info) ==
  IF publish_info.t = "str" THEN decoded_sub_items(json_loads(publish_info.s))
  ELSE <<>>

\* the first sub-item that yields a title
first_titled(subs) ==
  CHOOSE j \in DOMAIN subs :
    /\ sub_title(subs[j]) # PyNone
    /\ \A i \in 1..(j - 1) : sub_title(subs[i]) = PyNone

\* the item is resolved through publish_info: rule 1 gives no title and
\* publish_info is present and non-empty
through_publish_info(item) ==
  /\ item.t = "dict"
  /\ dict_get(item, "appmsg_info", PyNone).t \in {"dict", "none"}
  /\ ~has_title(dict_get(item, "appmsg_info", PyNone))
  /\ Truthy(dict_get(item, "publish_info", PyNone))

\* r is what rule 2 is said to give for the sub-items
publish_info_gives(subs, r) ==
  /\ r.exc = "none"
  /\ IF \E j \in DOMAIN subs : sub_title(subs[j]) # PyNone
     THEN r.title = sub_title(subs[first_titled(subs)])
     ELSE r.title = PyNone /\ r.line \in {207, 209}

\* C18: an item resolved through publish_info gets the title of the first
\* decoded sub-item that yields one (its direct title rather than the title
\* of its nested appmsg_info), whatever the later sub-items are; if
\* publish_info is present and non-empty and yields no title, the item is
\* reported as title not found and its top-level title is not used.
C18_publish_info_rule ==
  (parsed # Unset /\ parsed.examined # <<>>) =>
    LET items == listed_items
    IN \A k \in DOMAIN parsed.examined :
         through_publish_info(items[k]) =>
           publish_info_gives(sub_items(items[k].d["publish_info"]),
                              parsed.examined[k])

\* the number of progress records (line 50) logged
progress_signals == CopiesIn(Rec("INFO", 50), log)

\* the iterations of the wait loop that read no authenticated address
unmatched_iterations == iterations - (IF logged_in THEN 1 ELSE 0)

\* C19: during the login wait the progress record is logged exactly when
\* the count of attempts reaches a multiple of 20, so at most 6 times, and
\* a wait of 20 or more iterations without a match logs it at least once.
C19_progress_every_20_iterations ==
  login_calls > 0 =>
    /\ progress_signals = login_check_attempts \div ProgressEvery
    /\ progress_signals <= max_login_check_attempts \div ProgressEvery
    /\ unmatched_iterations >= ProgressEvery => progress_signals >= 1

\* do_login_flow has evaluated a script in the page
login_probed ==
  \E e \in DOMAIN evaluations :
    sessions[evaluations[e].session].owner = "login"

\* C20: whenever do_login_flow returns a value other than None, an
\* iteration of the wait loop has read an address containing
\* mp.weixin.qq.com/cgi-bin/home and the value holds a non-empty token and
\* a non-empty fakeid; no script is evaluated before such an address was
\* read.
C20_credentials_only_after_home ==
  /\ (login_ret # Unset /\ login_ret # PyNone) =>
       /\ logged_in
       /\ login_ret.t = "dict"
       /\ Truthy(login_ret.d["token"])
       /\ Truthy(login_ret.d["fakeid"])
  /\ login_probed => logged_in
  /\ logged_in =>
       /\ BagIn(Rec("INFO", 46), log)
       /\ iterations > raises
       /\ token = Unset => Contains(current_url.s, HomePath)

\* C20 happens: do_login_flow returned credentials after it had evaluated
\* scripts in the page.
C20_returned_credentials ==
  /\ login_returned_normally
  /\ login_ret.t = "dict"
  /\ login_probed
  /\ logged_in

\* the iterations of the wait loop that read an address without a match
unmatched_reads == iterations - raises - (IF logged_in THEN 1 ELSE 0)

\* the timeout of the login wait has been reported (line 57)
timeout_reported == BagIn(Rec("WARNING", 57), log)

\* C21: in every state of the login wait the counter of attempts lies
\* between 0 and 120; it counts the iterations that read an address
\* without a match and no other; and the timeout is reported only after
\* exactly 120 such reads, none of which matched.
C21_counter_counts_unmatched_reads ==
  login_calls > 0 =>
    /\ login_check_attempts \in 0..max_login_check_attempts
    /\ login_check_attempts = unmatched_reads
    /\ timeout_reported =>
         /\ login_check_attempts = max_login_check_attempts
         /\ unmatched_reads = max_login_check_attempts
         /\ ~logged_in
         /\ ~BagIn(Rec("INFO", 46), log)

\* C21 happens: the timeout was reported after 120 reads without a match
\* and two iterations that raised.
C21_timeout_after_120_reads ==
  /\ timeout_reported
  /\ login_ret = PyNone
  /\ raises = MaxRaises
  /\ iterations = max_login_check_attempts + MaxRaises
  /\ login_check_attempts = max_login_check_attempts

\* do_login_flow has extracted the token (lines 61-72) in this call
token_extracted == token # Unset

\* C22 as claimed: the token a successful do_login_flow returns is the
\* token parameter of an address that contains
\* mp.weixin.qq.com/cgi-bin/home, also when the page changes the address
\* between the read of the wait loop and the read of line 61.
C22_token_of_an_authenticated_address ==
  (token_extracted /\ login_ret.t = "dict") =>
    /\ login_ret.d["token"] = re_search_token(current_url.s)
    /\ Contains(current_url.s, HomePath)

\* C22 as amended: the token a successful do_login_flow returns is the
\* token parameter of the address read at line 61, after the wait loop,
\* whatever that address is: it is not tested again for
\* mp.weixin.qq.com/cgi-bin/home.
C22_token_of_the_address_read_last ==
  token_extracted =>
    /\ token = re_search_token(current_url.s)
    /\ login_ret.t = "dict" =>
         /\ Truthy(token)
         /\ login_ret.d["token"] = token

\* C22 happens: the page left the home address after the wait loop, and
\* the login returned the token of the address it went to.
C22_token_of_another_page ==
  /\ login_returned_normally
  /\ logged_in
  /\ current_url = PyStr(ExpiredUrl)
  /\ login_ret.t = "dict"
  /\ login_ret.d["token"] = PyStr("99")

\* the command line asks for the articles with exactly one of --token and
\* --fakeid
one_value_supplied ==
  get_articles_only /\ (HasFlag(argv, "--token") # HasFlag(argv, "--fakeid"))

\* the value the command line gives to the option, if it has the option
supplied(f) == IF HasFlag(argv, f) THEN PyStr(ArgValue(argv, f)) ELSE PyNone

\* C23: when --get-articles comes with exactly one of --token and --fakeid,
\* fetch_articles_command is called only with the token and the fakeid of
\* the login result: the value of the command line is not passed, neither
\* alone nor next to a value of the login.
C23_both_values_from_the_login ==
  (cli_started /\ one_value_supplied) =>
    \A c \in DOMAIN fetch_calls :
      /\ login_ret.t = "dict"
      /\ fetch_calls[c] = <<login_ret.d["token"], login_ret.d["fakeid"]>>
      /\ fetch_calls[c][1] # supplied("--token")
      /\ fetch_calls[c][2] # supplied("--fakeid")
      /\ token_to_use = login_ret.d["token"]
      /\ fakeid_to_use = login_ret.d["fakeid"]

\* C23 happens: only --fakeid was given, and the fetch has run with the
\* token and the fakeid of the login.
C23_supplied_fakeid_discarded ==
  /\ pc = "done"
  /\ argv = <<"main.py", "--get-articles", "--fakeid", "F1">>
  /\ login_calls = 1
  /\ Len(fetch_calls) = 1
  /\ fetch_calls[1][2] = login_ret.d["fakeid"]
  /\ fetch_calls[1][2] # PyStr("F1")
  /\ fetch_ret = PyNone

\* do_login_flow has recovered a token and a fakeid in this call
both_recovered ==
  /\ token_extracted
  /\ Truthy(token)
  /\ Truthy(fakeid)
  /\ pc \notin {"login_fakeid", "login_nickname"}

\* C24: once do_login_flow has recovered the token and the fakeid it
\* returns them, whatever happens afterwards: a failure of the final delay
\* (line 114) or of the closing of the session does not make the result
\* None.
C24_recovered_credentials_are_returned ==
  (both_recovered /\ login_ret # Unset) =>
    /\ login_ret.t = "dict"
    /\ login_ret.d["token"] = token
    /\ login_ret.d["fakeid"] = fakeid
====
